---- MODULE Spec2Model ----
(***************************************************************************)
(* The OAI 5G AUSF operator charm as a state machine: the reconciliation   *)
(* handler (_on_config_changed), the advertisement handler                 *)
(* (_on_fiveg_ausf_relation_joined) and the fiveg_ausf relation library,   *)
(* driven by an environment that changes the workload container, the       *)
(* leadership and the relations, and that delivers and redelivers events.  *)
(***************************************************************************)
EXTENDS Integers, Sequences, FiniteSets, TLC

VARIABLES
    can_connect,     \* Container.can_connect() of the "ausf" container
    plan,            \* the Pebble plan of the container
    service_active,  \* the "ausf" service of the plan is running
    files,           \* files pushed into the container: path -> content
    is_leader,       \* Unit.is_leader()
    nrf,             \* the fiveg-nrf relation and the remote application's data
    udm,             \* the fiveg-udm relation and the remote application's data
    ausf,            \* the fiveg-ausf relations by id, with the local application's data
    status,          \* the unit status
    pending,         \* events the substrate has still to deliver
    deferred,        \* events a handler deferred, awaiting redelivery
    last,            \* the most recent handler run: handler, event, calls made, raised
    requirer,        \* the fiveg-ausf relation as a requiring charm sees it
    triggers         \* the events whose orders of processing are compared

vars == <<can_connect, plan, service_active, files, is_leader, nrf, udm, ausf,
          status, pending, deferred, last, requirer, triggers>>

----------------------------------------------------------------------------
(* Bounds *)

\* Relation ids of the fiveg-ausf relation instances the environment may create.
MaxRelId == 2

RelIds == 1..MaxRelId

----------------------------------------------------------------------------
(* Values *)

\* Python's None: the result of dict.get(key, None) for an absent key.
None == "<None>"

\* Python truthiness of an Optional[str].
Truthy(v) == v # None /\ v # ""

\* dict.get(k, None)
Get(d, k) == IF k \in DOMAIN d THEN d[k] ELSE None

\* dict.update(u): the keys of u overwritten, the others kept.
Update(d, u) == [k \in DOMAIN d \cup DOMAIN u |-> IF k \in DOMAIN u THEN u[k] ELSE d[k]]

Restrict(d, S) == [k \in S |-> d[k]]

EmptyData == [k \in {} |-> ""]

BASE_CONFIG_PATH == "/openair-ausf/etc"

CONFIG_FILE_NAME == "ausf.conf"

\* f"{BASE_CONFIG_PATH}/{CONFIG_FILE_NAME}"
ConfigPath == BASE_CONFIG_PATH \o "/" \o CONFIG_FILE_NAME

_service_name == "ausf"

_config_instance == "0"

_config_pid_directory == "/var/run"

_config_ausf_name == "OAI_AUSF"

_config_use_fqdn_dns == "yes"

_config_register_nrf == "no"

_config_use_http2 == "no"

_config_sbi_interface_name == "eth0"

_config_sbi_interface_port == "80"

_config_sbi_interface_http2_port == "9090"

_config_sbi_interface_api_version == "v1"

\* self.model.app.name and self.model.name
AppName == "oai-5g-ausf"

ModelName == "whatever"

\* The name with model and application swapped.
AusfFqdnOfModelAndApp == ModelName \o "." \o AppName \o ".svc.cluster.local"

\* f"{self.model.app.name}.{self.model.name}.svc.cluster.local"
AusfFqdn == AppName \o "." \o ModelName \o ".svc.cluster.local"

----------------------------------------------------------------------------
(* Unit status *)

MaintenanceStatus(m) == [name |-> "maintenance", message |-> m]

WaitingStatus(m) == [name |-> "waiting", message |-> m]

BlockedStatus(m) == [name |-> "blocked", message |-> m]

ActiveStatus == [name |-> "active", message |-> ""]

----------------------------------------------------------------------------
(* Relations *)

NrfKeys == {"nrf_ipv4_address", "nrf_fqdn", "nrf_port", "nrf_api_version"}

UdmKeys == {"udm_ipv4_address", "udm_fqdn", "udm_port", "udm_api_version"}

AusfKeys == {"ausf_ipv4_address", "ausf_fqdn", "ausf_port", "ausf_api_version"}

\* The facts the upstream applications publish.
NrfFact == [nrf_ipv4_address |-> "1.2.3.4", nrf_fqdn |-> "nrf.example.com",
            nrf_port |-> "81", nrf_api_version |-> "v1"]

UdmFact == [udm_ipv4_address |-> "5.6.7.8", udm_fqdn |-> "udm.example.com",
            udm_port |-> "82", udm_api_version |-> "v2"]

\* What the remote application data of an upstream relation may hold: nothing,
\* the address alone, everything but the address, the whole fact.
NrfDataChoices ==
    {Restrict(NrfFact, S) : S \in {{}, {"nrf_ipv4_address"},
                                   NrfKeys \ {"nrf_ipv4_address"}, NrfKeys}}

UdmDataChoices ==
    {Restrict(UdmFact, S) : S \in {{}, {"udm_ipv4_address"},
                                   UdmKeys \ {"udm_ipv4_address"}, UdmKeys}}

\* model.get_relation(name) returning None
NoRelation == [created |-> FALSE, data |-> EmptyData]

Relation(d) == [created |-> TRUE, data |-> d]

\* The relation of a requiring charm: whether it exists, whether a remote
\* application is attached (relation.app is not None), and that
\* application's data.
NoRequirerRelation == [created |-> FALSE, app |-> FALSE, data |-> EmptyData]

RequirerRelation(app, d) == [created |-> TRUE, app |-> app, data |-> d]

----------------------------------------------------------------------------
(* Events *)

\* The events the charm observes, as the substrate holds them: name and
\* relation id (0 where the handler reads none).
ReconcileEvents ==
    {<<"config_changed", 0>>, <<"fiveg_nrf_relation_changed", 0>>,
     <<"fiveg_udm_relation_changed", 0>>}

JoinedEvent(r) == <<"fiveg_ausf_relation_joined", r>>

JoinedEvents == {JoinedEvent(r) : r \in RelIds}

Events == ReconcileEvents \cup JoinedEvents

NoArgs == [k \in {} |-> ""]

\* The record of a run: who ran, on which relation id (0 for none), the
\* arguments passed to the library, the calls made in order, whether it
\* raised, what it returned.
Run(handler, relation_id, args, calls, raised, returned) ==
    [handler |-> handler, relation_id |-> relation_id, args |-> args,
     calls |-> calls, raised |-> raised, returned |-> returned]

\* A run of an event handler: it returns None.
Ran(handler, event, args, calls, raised) ==
    Run(handler, event[2], args, calls, raised, "None")

NoRun == Run("", 0, NoArgs, <<>>, FALSE, "None")

\* The calls of a run, as a set.
Called(run) == {run.calls[i] : i \in DOMAIN run.calls}

Count(run, call) == Cardinality({i \in DOMAIN run.calls : run.calls[i] = call})

----------------------------------------------------------------------------
(* The upstream requirers, FiveGNRFRequires and FiveGUDMRequires: a getter *)
(* per field on the remote application's data, and the availability probe  *)
(* of the address, the one probe the charm consults.                       *)

nrf_ipv4_address == Get(nrf.data, "nrf_ipv4_address")

nrf_fqdn == Get(nrf.data, "nrf_fqdn")

nrf_port == Get(nrf.data, "nrf_port")

nrf_api_version == Get(nrf.data, "nrf_api_version")

nrf_ipv4_address_available == Truthy(nrf_ipv4_address)

udm_ipv4_address == Get(udm.data, "udm_ipv4_address")

udm_fqdn == Get(udm.data, "udm_fqdn")

udm_port == Get(udm.data, "udm_port")

udm_api_version == Get(udm.data, "udm_api_version")

udm_ipv4_address_available == Truthy(udm_ipv4_address)

----------------------------------------------------------------------------
(* The reconciliation handler *)

\* model.get_relation(relation_name)
get_relation(relation_name) ==
    IF relation_name = "fiveg-nrf" THEN nrf ELSE udm

_relation_created(relation_name) ==
    IF ~get_relation(relation_name).created THEN FALSE ELSE TRUE

_nrf_relation_created == _relation_created("fiveg-nrf")

_udm_relation_created == _relation_created("fiveg-udm")

\* How the template prints a variable: a string as it is, None as "None".
Str(v) == IF v = None THEN "None" ELSE v

\* The rendering with the NRF values bound in the UDM section too.
RenderConfigWithNrfAsUdm ==
    [instance |-> Str(_config_instance),
     pid_directory |-> Str(_config_pid_directory),
     ausf_name |-> Str(_config_ausf_name),
     sbi_interface_name |-> Str(_config_sbi_interface_name),
     sbi_interface_port |-> Str(_config_sbi_interface_port),
     sbi_interface_api_version |-> Str(_config_sbi_interface_api_version),
     sbi_interface_http2_port |-> Str(_config_sbi_interface_http2_port),
     use_fqdn_dns |-> Str(_config_use_fqdn_dns),
     use_http2 |-> Str(_config_use_http2),
     register_nrf |-> Str(_config_register_nrf),
     udm_ipv4_address |-> Str(nrf_ipv4_address),
     udm_port |-> Str(nrf_port),
     udm_api_version |-> Str(nrf_api_version),
     udm_fqdn |-> Str(nrf_fqdn),
     nrf_ipv4_address |-> Str(nrf_ipv4_address),
     nrf_port |-> Str(nrf_port),
     nrf_api_version |-> Str(nrf_api_version),
     nrf_fqdn |-> Str(nrf_fqdn)]

\* template.render(...): the bindings of ausf.conf.j2, each printed.
RenderConfig ==
    [instance |-> Str(_config_instance),
     pid_directory |-> Str(_config_pid_directory),
     ausf_name |-> Str(_config_ausf_name),
     sbi_interface_name |-> Str(_config_sbi_interface_name),
     sbi_interface_port |-> Str(_config_sbi_interface_port),
     sbi_interface_api_version |-> Str(_config_sbi_interface_api_version),
     sbi_interface_http2_port |-> Str(_config_sbi_interface_http2_port),
     use_fqdn_dns |-> Str(_config_use_fqdn_dns),
     use_http2 |-> Str(_config_use_http2),
     register_nrf |-> Str(_config_register_nrf),
     udm_ipv4_address |-> Str(udm_ipv4_address),
     udm_port |-> Str(udm_port),
     udm_api_version |-> Str(udm_api_version),
     udm_fqdn |-> Str(udm_fqdn),
     nrf_ipv4_address |-> Str(nrf_ipv4_address),
     nrf_port |-> Str(nrf_port),
     nrf_api_version |-> Str(nrf_api_version),
     nrf_fqdn |-> Str(nrf_fqdn)]

\* Container.push(path, source)
_push_config ==
    files' = Update(files, ConfigPath :> RenderConfig)

_pebble_layer ==
    [summary |-> "ausf layer",
     description |-> "pebble config layer for ausf",
     services |->
        {[name |-> _service_name,
          override |-> "replace",
          summary |-> "ausf",
          command |-> "/openair-ausf/bin/oai_ausf -c " \o ConfigPath \o " -o",
          startup |-> "enabled"]}]

EmptyPlan == [services |-> {}]

\* Container.add_layer(label, layer, combine=True): the services of the
\* layer replace the services of the same name.
AddLayer(p, layer) ==
    [services |->
        {s \in p.services : \A t \in layer.services : t.name # s.name}
            \cup layer.services]

\* The layer added and nothing started: no replan, no restart.
_update_pebble_layer_without_restart ==
    /\ plan' = AddLayer(plan, _pebble_layer)
    /\ service_active' = service_active

\* add_layer, replan (starts the enabled services), restart.
_update_pebble_layer ==
    /\ plan' = AddLayer(plan, _pebble_layer)
    /\ service_active' = TRUE

\* The calls of a passing run, in the order the handler makes them.
ApplyCalls == <<"push", "add_layer", "replan", "restart", "status">>

\* The checks without the last one: a handler that applies the
\* configuration without looking at the UDM data.
ReadinessChecksWithoutUdmData ==
    << [ok |-> can_connect,
        status |-> WaitingStatus("Waiting for Pebble in workload container"),
        defer |-> TRUE],
       [ok |-> _nrf_relation_created,
        status |-> BlockedStatus("Waiting for relation to NRF to be created"),
        defer |-> FALSE],
       [ok |-> _udm_relation_created,
        status |-> BlockedStatus("Waiting for relation to UDM to be created"),
        defer |-> FALSE],
       [ok |-> nrf_ipv4_address_available,
        status |-> WaitingStatus(
            "Waiting for NRF IPv4 address to be available in relation data"),
        defer |-> FALSE] >>

\* The checks with the event never deferred: a handler that forgets
\* event.defer() when the container is unreachable.
ReadinessChecksNeverDeferring ==
    << [ok |-> can_connect,
        status |-> WaitingStatus("Waiting for Pebble in workload container"),
        defer |-> FALSE],
       [ok |-> _nrf_relation_created,
        status |-> BlockedStatus("Waiting for relation to NRF to be created"),
        defer |-> FALSE],
       [ok |-> _udm_relation_created,
        status |-> BlockedStatus("Waiting for relation to UDM to be created"),
        defer |-> FALSE],
       [ok |-> nrf_ipv4_address_available,
        status |-> WaitingStatus(
            "Waiting for NRF IPv4 address to be available in relation data"),
        defer |-> FALSE],
       [ok |-> udm_ipv4_address_available,
        status |-> WaitingStatus(
            "Waiting for UDM IPv4 address to be available in relation data"),
        defer |-> FALSE] >>

\* The checks of the handler in the order it makes them: what must hold,
\* the status it sets when that fails, and whether it then defers the event.
ReadinessChecks ==
    << [ok |-> can_connect,
        status |-> WaitingStatus("Waiting for Pebble in workload container"),
        defer |-> TRUE],
       [ok |-> _nrf_relation_created,
        status |-> BlockedStatus("Waiting for relation to NRF to be created"),
        defer |-> FALSE],
       [ok |-> _udm_relation_created,
        status |-> BlockedStatus("Waiting for relation to UDM to be created"),
        defer |-> FALSE],
       [ok |-> nrf_ipv4_address_available,
        status |-> WaitingStatus(
            "Waiting for NRF IPv4 address to be available in relation data"),
        defer |-> FALSE],
       [ok |-> udm_ipv4_address_available,
        status |-> WaitingStatus(
            "Waiting for UDM IPv4 address to be available in relation data"),
        defer |-> FALSE] >>

\* The first check that fails, 0 when none does.
FirstFailing(checks) ==
    IF \A i \in DOMAIN checks : checks[i].ok THEN 0
    ELSE CHOOSE i \in DOMAIN checks :
            ~checks[i].ok /\ \A j \in 1..(i - 1) : checks[j].ok

\* The handler evaluating on config_changed alone and returning at once on
\* the relation events.
_on_config_changed_for_config_only(event) ==
    LET failing == IF event[1] = "config_changed"
                   THEN FirstFailing(ReadinessChecks) ELSE 1 IN
    /\ UNCHANGED <<can_connect, is_leader, nrf, udm, ausf, requirer, triggers>>
    /\ IF event[1] # "config_changed" THEN
            /\ last' = Ran("_on_config_changed", event, NoArgs, <<>>, FALSE)
            /\ UNCHANGED <<status, files, plan, service_active>>
       ELSE IF failing # 0 THEN
            /\ status' = ReadinessChecks[failing].status
            /\ last' = Ran("_on_config_changed", event, NoArgs,
                           IF ReadinessChecks[failing].defer
                           THEN <<"status", "defer">> ELSE <<"status">>,
                           FALSE)
            /\ UNCHANGED <<files, plan, service_active>>
       ELSE
            /\ _push_config
            /\ _update_pebble_layer
            /\ status' = ActiveStatus
            /\ last' = Ran("_on_config_changed", event, NoArgs, ApplyCalls, FALSE)

_on_config_changed(event) ==
    LET failing == FirstFailing(ReadinessChecks) IN
    /\ UNCHANGED <<can_connect, is_leader, nrf, udm, ausf, requirer, triggers>>
    /\ IF failing # 0 THEN
            /\ status' = ReadinessChecks[failing].status
            /\ last' = Ran("_on_config_changed", event, NoArgs,
                           IF ReadinessChecks[failing].defer
                           THEN <<"status", "defer">> ELSE <<"status">>,
                           FALSE)
            /\ UNCHANGED <<files, plan, service_active>>
       ELSE
            /\ _push_config
            /\ _update_pebble_layer
            /\ status' = ActiveStatus
            /\ last' = Ran("_on_config_changed", event, NoArgs, ApplyCalls, FALSE)

\* The Pebble calls of a passing run, any of which may raise.
PebbleSteps == {"push", "add_layer", "replan", "restart"}

\* The position of a call among those of a passing run.
StepIndex(step) == CHOOSE i \in DOMAIN ApplyCalls : ApplyCalls[i] = step

\* The run that catches what a Pebble call raises and sets the status all
\* the same.
_on_config_changed_raising_yet_active(event, step) ==
    /\ FirstFailing(ReadinessChecks) = 0
    /\ UNCHANGED <<can_connect, is_leader, nrf, udm, ausf, requirer, triggers>>
    /\ IF StepIndex(step) > 1 THEN _push_config ELSE UNCHANGED files
    /\ IF StepIndex(step) > 2 THEN plan' = AddLayer(plan, _pebble_layer)
                              ELSE UNCHANGED plan
    /\ IF StepIndex(step) > 2 THEN service_active' \in BOOLEAN
                              ELSE UNCHANGED service_active
    /\ status' = ActiveStatus
    /\ last' = Ran("_on_config_changed", event, NoArgs,
                   SubSeq(ApplyCalls, 1, StepIndex(step)) \o <<"status">>, FALSE)

\* A run of the handler that passes its checks and in which the Pebble call
\* step raises: the calls before it are made, the exception leaves the
\* handler at that call and the status is not set. After add_layer the
\* service is in the plan, and a replan or a restart that raises leaves it
\* running or not.
_on_config_changed_raising(event, step) ==
    /\ FirstFailing(ReadinessChecks) = 0
    /\ UNCHANGED <<can_connect, is_leader, nrf, udm, ausf, requirer, triggers>>
    /\ IF StepIndex(step) > 1 THEN _push_config ELSE UNCHANGED files
    /\ IF StepIndex(step) > 2 THEN plan' = AddLayer(plan, _pebble_layer)
                              ELSE UNCHANGED plan
    /\ IF StepIndex(step) > 2 THEN service_active' \in BOOLEAN
                              ELSE UNCHANGED service_active
    /\ UNCHANGED status
    /\ last' = Ran("_on_config_changed", event, NoArgs,
                   SubSeq(ApplyCalls, 1, StepIndex(step)), TRUE)

----------------------------------------------------------------------------
(* The fiveg_ausf library, provider side *)

\* model.get_relation(relationship_name, relation_id=relation_id) is not None
RelationEstablished(relation_id) ==
    relation_id \in DOMAIN ausf /\ ausf[relation_id].created

AusfInformation(ausf_ipv4_address, ausf_fqdn, ausf_port, ausf_api_version) ==
    [ausf_ipv4_address |-> ausf_ipv4_address,
     ausf_fqdn |-> ausf_fqdn,
     ausf_port |-> ausf_port,
     ausf_api_version |-> ausf_api_version]

\* The comparison with the port and the API version passed in each other's
\* place.
ausf_data_is_set_positional(relation_id, ausf_ipv4_address, ausf_fqdn, ausf_api_version, ausf_port) ==
    IF ~RelationEstablished(relation_id) THEN
        [raised |-> TRUE, returned |-> FALSE]
    ELSE
        LET data == ausf[relation_id].data IN
        [raised |-> FALSE,
         returned |->
            IF Get(data, "ausf_ipv4_address") # ausf_ipv4_address THEN FALSE
            ELSE IF Get(data, "ausf_fqdn") # ausf_fqdn THEN FALSE
            ELSE IF Get(data, "ausf_port") # ausf_api_version THEN FALSE
            ELSE IF Get(data, "ausf_api_version") # ausf_port THEN FALSE
            ELSE TRUE]

\* Whether the call raises RuntimeError, and else whether the four stored
\* fields equal the given ones.
ausf_data_is_set(relation_id, ausf_ipv4_address, ausf_fqdn, ausf_api_version, ausf_port) ==
    IF ~RelationEstablished(relation_id) THEN
        [raised |-> TRUE, returned |-> FALSE]
    ELSE
        LET data == ausf[relation_id].data IN
        [raised |-> FALSE,
         returned |->
            IF Get(data, "ausf_ipv4_address") # ausf_ipv4_address THEN FALSE
            ELSE IF Get(data, "ausf_fqdn") # ausf_fqdn THEN FALSE
            ELSE IF Get(data, "ausf_port") # ausf_port THEN FALSE
            ELSE IF Get(data, "ausf_api_version") # ausf_api_version THEN FALSE
            ELSE TRUE]

\* The call assigning the four fields as the whole of the data, the other
\* keys lost.
set_ausf_information_replacing(ausf_ipv4_address, ausf_fqdn, ausf_port, ausf_api_version, relation_id) ==
    LET is_set == ausf_data_is_set(relation_id, ausf_ipv4_address, ausf_fqdn,
                                   ausf_api_version, ausf_port)
    IN  IF ~RelationEstablished(relation_id) THEN
            [raised |-> TRUE, calls |-> <<>>, ausf |-> ausf]
        ELSE IF is_set.returned THEN
            [raised |-> FALSE, calls |-> <<>>, ausf |-> ausf]
        ELSE
            [raised |-> FALSE, calls |-> <<"update">>,
             ausf |-> [ausf EXCEPT ![relation_id].data =
                        AusfInformation(ausf_ipv4_address, ausf_fqdn,
                                        ausf_port, ausf_api_version)]]

\* The call returning silently when the relation does not exist.
set_ausf_information_unchecked(ausf_ipv4_address, ausf_fqdn, ausf_port, ausf_api_version, relation_id) ==
    IF ~RelationEstablished(relation_id) THEN
        [raised |-> FALSE, calls |-> <<>>, ausf |-> ausf]
    ELSE
        [raised |-> FALSE, calls |-> <<"update">>,
         ausf |-> [ausf EXCEPT ![relation_id].data =
                    Update(@, [ausf_ipv4_address |-> ausf_ipv4_address,
                               ausf_fqdn |-> ausf_fqdn,
                               ausf_port |-> ausf_port,
                               ausf_api_version |-> ausf_api_version])]]

\* The outcome of a call: whether it raised RuntimeError, the calls it made
\* on the relation data, and the relations afterwards.
set_ausf_information(ausf_ipv4_address, ausf_fqdn, ausf_port, ausf_api_version, relation_id) ==
    LET is_set == ausf_data_is_set(relation_id, ausf_ipv4_address, ausf_fqdn,
                                   ausf_api_version, ausf_port)
    IN  IF ~RelationEstablished(relation_id) THEN
            [raised |-> TRUE, calls |-> <<>>, ausf |-> ausf]
        ELSE IF is_set.raised THEN
            [raised |-> TRUE, calls |-> <<>>, ausf |-> ausf]
        ELSE IF is_set.returned THEN
            [raised |-> FALSE, calls |-> <<>>, ausf |-> ausf]
        ELSE
            [raised |-> FALSE, calls |-> <<"update">>,
             ausf |-> [ausf EXCEPT ![relation_id].data =
                        Update(@, AusfInformation(ausf_ipv4_address, ausf_fqdn,
                                                  ausf_port, ausf_api_version))]]

\* self.model.relations[self.relationship_name]: the relations that exist.
LiveRelations == {r \in RelIds : ausf[r].created}

\* One call of the loop, on relation r: set_ausf_information, whose update
\* of the relation data raises when the substrate refuses it (failing holds
\* the relations it refuses); nothing is written then.
PublishTo(ausf_ipv4_address, ausf_fqdn, ausf_port, ausf_api_version, relation_id, failing) ==
    LET out == set_ausf_information(ausf_ipv4_address, ausf_fqdn, ausf_port,
                                    ausf_api_version, relation_id)
    IN  IF relation_id \in failing /\ out.calls = <<"update">>
        THEN [raised |-> TRUE, calls |-> <<"update">>, ausf |-> ausf]
        ELSE out

\* The calls of the loop that raise.
RaisingCalls(ausf_ipv4_address, ausf_fqdn, ausf_port, ausf_api_version, failing) ==
    {r \in LiveRelations :
        PublishTo(ausf_ipv4_address, ausf_fqdn, ausf_port, ausf_api_version,
                  r, failing).raised}

Min(S) == CHOOSE x \in S : \A y \in S : x <= y

\* The loop catching what a call raises and going on to the next relation.
set_ausf_information_for_all_relations_swallowing(ausf_ipv4_address, ausf_fqdn, ausf_port, ausf_api_version, failing) ==
    LET out(r) == PublishTo(ausf_ipv4_address, ausf_fqdn, ausf_port,
                            ausf_api_version, r, failing)
        updates == {r \in LiveRelations : out(r).calls = <<"update">>}
    IN  [raised |-> FALSE,
         calls |-> [i \in 1..Cardinality(updates) |-> "update"],
         ausf |-> [r \in RelIds |->
                    IF r \in LiveRelations THEN out(r).ausf[r] ELSE ausf[r]]]

\* The loop over the relations in the order of their ids: each call reads
\* and writes the data of its own relation only; the first call that raises
\* ends the loop, the relations before it written and those after it not.
set_ausf_information_for_all_relations(ausf_ipv4_address, ausf_fqdn, ausf_port, ausf_api_version, failing) ==
    LET out(r) == PublishTo(ausf_ipv4_address, ausf_fqdn, ausf_port,
                            ausf_api_version, r, failing)
        raising == RaisingCalls(ausf_ipv4_address, ausf_fqdn, ausf_port,
                                ausf_api_version, failing)
        reached == IF raising = {} THEN LiveRelations
                   ELSE {r \in LiveRelations : r <= Min(raising)}
        updates == {r \in reached : out(r).calls = <<"update">>}
    IN  [raised |-> raising # {},
         calls |-> [i \in 1..Cardinality(updates) |-> "update"],
         ausf |-> [r \in RelIds |->
                    IF r \in reached THEN out(r).ausf[r] ELSE ausf[r]]]

----------------------------------------------------------------------------
(* The advertisement handler *)

\* Container.get_service(name): the services of that name; none is ModelError.
get_service(name) == {s \in plan.services : s.name = name}

\* The probe without the is_running() check.
_ausf_service_started_if_present ==
    IF ~can_connect THEN FALSE
    ELSE IF get_service(_service_name) = {} THEN FALSE
    ELSE TRUE

\* The probe looking at the container alone.
_ausf_service_started_if_reachable ==
    IF ~can_connect THEN FALSE
    ELSE TRUE

_ausf_service_started ==
    IF ~can_connect THEN FALSE
    ELSE IF get_service(_service_name) = {} THEN FALSE
    ELSE IF ~service_active THEN FALSE
    ELSE TRUE

\* The fact the charm advertises.
CharmInformation ==
    AusfInformation("127.0.0.1", AusfFqdn, _config_sbi_interface_port,
                    _config_sbi_interface_api_version)

\* The handler without the leader check.
_on_fiveg_ausf_relation_joined_any_unit(event) ==
    /\ UNCHANGED <<can_connect, plan, service_active, files, is_leader, nrf, udm, status, requirer, triggers>>
    /\ IF ~_ausf_service_started THEN
            /\ last' = Ran("_on_fiveg_ausf_relation_joined", event, NoArgs,
                           <<"defer">>, FALSE)
            /\ UNCHANGED ausf
       ELSE
            LET out == set_ausf_information("127.0.0.1", AusfFqdn,
                                            _config_sbi_interface_port,
                                            _config_sbi_interface_api_version,
                                            event[2])
            IN  /\ ausf' = out.ausf
                /\ last' = Ran("_on_fiveg_ausf_relation_joined", event,
                               CharmInformation, out.calls, out.raised)

\* The handler setting the unit status once it has published.
_on_fiveg_ausf_relation_joined_setting_status(event) ==
    /\ UNCHANGED <<can_connect, plan, service_active, files, is_leader, nrf, udm, requirer, triggers>>
    /\ IF ~is_leader THEN
            /\ last' = Ran("_on_fiveg_ausf_relation_joined", event, NoArgs, <<>>, FALSE)
            /\ UNCHANGED <<ausf, status>>
       ELSE IF ~_ausf_service_started THEN
            /\ last' = Ran("_on_fiveg_ausf_relation_joined", event, NoArgs,
                           <<"defer">>, FALSE)
            /\ UNCHANGED <<ausf, status>>
       ELSE
            LET out == set_ausf_information("127.0.0.1", AusfFqdn,
                                            _config_sbi_interface_port,
                                            _config_sbi_interface_api_version,
                                            event[2])
            IN  /\ ausf' = out.ausf
                /\ status' = IF out.raised THEN status ELSE ActiveStatus
                /\ last' = Ran("_on_fiveg_ausf_relation_joined", event,
                               CharmInformation, out.calls, out.raised)

\* The handler returning without deferring when the service is not started.
_on_fiveg_ausf_relation_joined_never_deferring(event) ==
    /\ UNCHANGED <<can_connect, plan, service_active, files, is_leader, nrf, udm, status, requirer, triggers>>
    /\ IF ~is_leader THEN
            /\ last' = Ran("_on_fiveg_ausf_relation_joined", event, NoArgs, <<>>, FALSE)
            /\ UNCHANGED ausf
       ELSE IF ~_ausf_service_started THEN
            /\ last' = Ran("_on_fiveg_ausf_relation_joined", event, NoArgs, <<>>, FALSE)
            /\ UNCHANGED ausf
       ELSE
            LET out == set_ausf_information("127.0.0.1", AusfFqdn,
                                            _config_sbi_interface_port,
                                            _config_sbi_interface_api_version,
                                            event[2])
            IN  /\ ausf' = out.ausf
                /\ last' = Ran("_on_fiveg_ausf_relation_joined", event,
                               CharmInformation, out.calls, out.raised)

_on_fiveg_ausf_relation_joined(event) ==
    /\ UNCHANGED <<can_connect, plan, service_active, files, is_leader, nrf, udm, status, requirer, triggers>>
    /\ IF ~is_leader THEN
            /\ last' = Ran("_on_fiveg_ausf_relation_joined", event, NoArgs, <<>>, FALSE)
            /\ UNCHANGED ausf
       ELSE IF ~_ausf_service_started THEN
            /\ last' = Ran("_on_fiveg_ausf_relation_joined", event, NoArgs,
                           <<"defer">>, FALSE)
            /\ UNCHANGED ausf
       ELSE
            LET out == set_ausf_information("127.0.0.1", AusfFqdn,
                                            _config_sbi_interface_port,
                                            _config_sbi_interface_api_version,
                                            event[2])
            IN  /\ ausf' = out.ausf
                /\ last' = Ran("_on_fiveg_ausf_relation_joined", event,
                               CharmInformation, out.calls, out.raised)

----------------------------------------------------------------------------
(* Event delivery: framework.observe binds each event to its handler. A    *)
(* run that defers keeps the event for redelivery; a run that raises fails *)
(* the hook and leaves the event where it was.                             *)

Handle(event) ==
    IF event \in ReconcileEvents
    THEN _on_config_changed(event)
    ELSE _on_fiveg_ausf_relation_joined(event)

Deferring(run) == "defer" \in Called(run)

Deliver(e) ==
    /\ e \in pending
    /\ Handle(e)
    /\ pending' = IF last'.raised THEN pending ELSE pending \ {e}
    /\ deferred' = IF Deferring(last') THEN deferred \cup {e} ELSE deferred

\* The deferred event forgotten: taken off the queue, no handler run.
RedeliverDropping(e) ==
    /\ e \in deferred
    /\ deferred' = deferred \ {e}
    /\ UNCHANGED <<can_connect, plan, service_active, files, is_leader, nrf, udm,
                   ausf, status, pending, last, requirer, triggers>>

Redeliver(e) ==
    /\ e \in deferred
    /\ Handle(e)
    /\ deferred' = IF Deferring(last') \/ last'.raised THEN deferred ELSE deferred \ {e}
    /\ UNCHANGED pending

----------------------------------------------------------------------------
(* The environment *)

ContainerChanges ==
    /\ can_connect' \in BOOLEAN \ {can_connect}
    /\ UNCHANGED <<plan, service_active, files, is_leader, nrf, udm, ausf,
                   status, pending, deferred, last, requirer, triggers>>

\* The service of the plan stops, or Pebble starts it again.
ServiceChanges ==
    /\ get_service(_service_name) # {}
    /\ service_active' \in BOOLEAN \ {service_active}
    /\ UNCHANGED <<can_connect, plan, files, is_leader, nrf, udm, ausf,
                   status, pending, deferred, last, requirer, triggers>>

LeaderChanges ==
    /\ is_leader' \in BOOLEAN \ {is_leader}
    /\ UNCHANGED <<can_connect, plan, service_active, files, nrf, udm, ausf,
                   status, pending, deferred, last, requirer, triggers>>

ConfigChanges ==
    /\ pending' = pending \cup {<<"config_changed", 0>>}
    /\ UNCHANGED <<can_connect, plan, service_active, files, is_leader, nrf, udm,
                   ausf, status, deferred, last, requirer, triggers>>

\* The remote NRF application joins, or rewrites its data: relation_changed.
NrfChanges(d) ==
    /\ nrf # Relation(d)
    /\ nrf' = Relation(d)
    /\ pending' = pending \cup {<<"fiveg_nrf_relation_changed", 0>>}
    /\ UNCHANGED <<can_connect, plan, service_active, files, is_leader, udm, ausf,
                   status, deferred, last, requirer, triggers>>

\* The relation is removed: the charm observes no event for it.
NrfRemoved ==
    /\ nrf.created
    /\ nrf' = NoRelation
    /\ UNCHANGED <<can_connect, plan, service_active, files, is_leader, udm, ausf,
                   status, pending, deferred, last, requirer, triggers>>

UdmChanges(d) ==
    /\ udm # Relation(d)
    /\ udm' = Relation(d)
    /\ pending' = pending \cup {<<"fiveg_udm_relation_changed", 0>>}
    /\ UNCHANGED <<can_connect, plan, service_active, files, is_leader, nrf, ausf,
                   status, deferred, last, requirer, triggers>>

UdmRemoved ==
    /\ udm.created
    /\ udm' = NoRelation
    /\ UNCHANGED <<can_connect, plan, service_active, files, is_leader, nrf, ausf,
                   status, pending, deferred, last, requirer, triggers>>

\* A unit of a downstream consumer joins relation r, creating it if need be.
AusfJoined(r) ==
    /\ ausf' = IF ausf[r].created THEN ausf ELSE [ausf EXCEPT ![r] = Relation(EmptyData)]
    /\ pending' = pending \cup {JoinedEvent(r)}
    /\ UNCHANGED <<can_connect, plan, service_active, files, is_leader, nrf, udm,
                   status, deferred, last, requirer, triggers>>

AusfRemoved(r) ==
    /\ ausf[r].created
    /\ ausf' = [ausf EXCEPT ![r] = NoRelation]
    /\ UNCHANGED <<can_connect, plan, service_active, files, is_leader, nrf, udm,
                   status, pending, deferred, last, requirer, triggers>>

----------------------------------------------------------------------------
(* The reconciliation controller: the charm with no downstream consumer,   *)
(* its container and its two upstream relations changing freely.           *)

Init ==
    /\ can_connect = FALSE
    /\ plan = EmptyPlan
    /\ service_active = FALSE
    /\ files = EmptyData
    /\ is_leader = FALSE
    /\ nrf = NoRelation
    /\ udm = NoRelation
    /\ ausf = [r \in RelIds |-> NoRelation]
    /\ status = MaintenanceStatus("")
    /\ pending = {}
    /\ deferred = {}
    /\ last = NoRun
    /\ requirer = NoRequirerRelation
    /\ triggers = {}

NextReconcile ==
    \/ \E e \in ReconcileEvents : Deliver(e)
    \/ \E e \in ReconcileEvents : Redeliver(e)
    \/ ContainerChanges
    \/ ServiceChanges
    \/ ConfigChanges
    \/ \E d \in NrfDataChoices : NrfChanges(d)
    \/ NrfRemoved
    \/ \E d \in UdmDataChoices : UdmChanges(d)
    \/ UdmRemoved

SpecReconcile == Init /\ [][NextReconcile]_vars

\* The substrate re-emits a deferred event at the next hook it runs: a
\* deferred event is redelivered in the end. Nothing else is required to
\* happen: no new event, no change of the environment.
FairRedelivery == \A e \in ReconcileEvents : WF_vars(Redeliver(e))

SpecReconcileFair == SpecReconcile /\ FairRedelivery

\* The hook fails when its handler raises: the event stays where it was,
\* pending or deferred, to be handled again.
DeliverRaising(e, step) ==
    /\ e \in pending
    /\ _on_config_changed_raising(e, step)
    /\ UNCHANGED <<pending, deferred>>

RedeliverRaising(e, step) ==
    /\ e \in deferred
    /\ _on_config_changed_raising(e, step)
    /\ UNCHANGED <<pending, deferred>>

\* The reconciliation controller with Pebble calls that may raise: the
\* container coming and going, the configuration changing, the NRF
\* publishing its fact or withdrawing it, the UDM publishing its fact.
NextReconcilePebble ==
    \/ \E e \in ReconcileEvents : Deliver(e)
    \/ \E e \in ReconcileEvents : Redeliver(e)
    \/ \E e \in ReconcileEvents, step \in PebbleSteps : DeliverRaising(e, step)
    \/ \E e \in ReconcileEvents, step \in PebbleSteps : RedeliverRaising(e, step)
    \/ ContainerChanges
    \/ ConfigChanges
    \/ \E d \in {EmptyData, NrfFact} : NrfChanges(d)
    \/ UdmChanges(UdmFact)

SpecReconcilePebble == Init /\ [][NextReconcilePebble]_vars

----------------------------------------------------------------------------
(* The advertisement controller: the charm with both upstream relations    *)
(* established and complete, its container, its leadership and its         *)
(* downstream relations changing freely.                                   *)

InitAdvertise ==
    /\ can_connect = FALSE
    /\ plan = EmptyPlan
    /\ service_active = FALSE
    /\ files = EmptyData
    /\ is_leader = FALSE
    /\ nrf = Relation(NrfFact)
    /\ udm = Relation(UdmFact)
    /\ ausf = [r \in RelIds |-> NoRelation]
    /\ status = MaintenanceStatus("")
    /\ pending = {}
    /\ deferred = {}
    /\ last = NoRun
    /\ requirer = NoRequirerRelation
    /\ triggers = {}

AdvertiseEvents == {<<"config_changed", 0>>} \cup JoinedEvents

NextAdvertise ==
    \/ \E e \in AdvertiseEvents : Deliver(e)
    \/ \E e \in AdvertiseEvents : Redeliver(e)
    \/ ContainerChanges
    \/ ServiceChanges
    \/ LeaderChanges
    \/ ConfigChanges
    \/ \E r \in RelIds : AusfJoined(r)
    \/ \E r \in RelIds : AusfRemoved(r)

SpecAdvertise == InitAdvertise /\ [][NextAdvertise]_vars

\* The substrate delivers the events it holds and re-emits the deferred
\* ones: a pending or deferred event is handled in the end. No change of the
\* environment is required to happen.
FairDelivery ==
    \A e \in AdvertiseEvents : WF_vars(Deliver(e)) /\ WF_vars(Redeliver(e))

SpecAdvertiseFair == SpecAdvertise /\ FairDelivery

----------------------------------------------------------------------------
(* The library on its own: a charm calling FiveGAUSFProvides with any      *)
(* information and any relation id, on relations holding any data.         *)

OtherInformation ==
    AusfInformation("10.0.0.1", AusfFqdn, "8080", _config_sbi_interface_api_version)

InformationChoices == {CharmInformation, OtherInformation}

\* A key of the application data that is none of the library's.
OtherKey == "egress-subnets"

StoreValues(k) ==
    IF k = OtherKey THEN {"10.1.0.0/16"} ELSE {i[k] : i \in InformationChoices}

\* What the local application data of a relation may hold: any of the keys,
\* each with any of its values.
StoreChoices ==
    UNION {{d \in [S -> UNION {StoreValues(k) : k \in S}] :
                \A k \in S : d[k] \in StoreValues(k)} :
           S \in SUBSET (AusfKeys \cup {OtherKey})}

\* The relation ids a caller may pass: those of the model and one no
\* relation ever has.
CallIds == 1..(MaxRelId + 1)

InitLibrary ==
    /\ can_connect = TRUE
    /\ plan = EmptyPlan
    /\ service_active = FALSE
    /\ files = EmptyData
    /\ is_leader = TRUE
    /\ nrf = NoRelation
    /\ udm = NoRelation
    /\ ausf \in {a \in [RelIds -> {NoRelation} \cup {Relation(d) : d \in StoreChoices}] :
                    \A r \in RelIds \ {1} :
                        a[r] \in {NoRelation, Relation(EmptyData),
                                  Relation(CharmInformation)}}
    /\ status = MaintenanceStatus("")
    /\ pending = {}
    /\ deferred = {}
    /\ last = NoRun
    /\ requirer = NoRequirerRelation
    /\ triggers = {}

Bool(b) == IF b THEN "True" ELSE "False"

CallSetAusfInformation(info, relation_id) ==
    LET out == set_ausf_information(info.ausf_ipv4_address, info.ausf_fqdn,
                                    info.ausf_port, info.ausf_api_version,
                                    relation_id)
    IN  /\ ausf' = out.ausf
        /\ last' = Run("set_ausf_information", relation_id, info,
                       out.calls, out.raised, "None")
        /\ UNCHANGED <<can_connect, plan, service_active, files, is_leader, nrf,
                       udm, status, pending, deferred, requirer, triggers>>

CallAusfDataIsSet(info, relation_id) ==
    LET out == ausf_data_is_set(relation_id, info.ausf_ipv4_address,
                                info.ausf_fqdn, info.ausf_api_version,
                                info.ausf_port)
    IN  /\ last' = Run("ausf_data_is_set", relation_id, info,
                       <<>>, out.raised,
                       IF out.raised THEN "None" ELSE Bool(out.returned))
        /\ UNCHANGED <<can_connect, plan, service_active, files, is_leader, nrf,
                       udm, ausf, status, pending, deferred, requirer, triggers>>

\* A call of set_ausf_information_for_all_relations, the substrate
\* refusing the writes to the relations of failing.
CallSetAusfInformationForAllRelations(info, failing) ==
    LET out == set_ausf_information_for_all_relations(
                    info.ausf_ipv4_address, info.ausf_fqdn, info.ausf_port,
                    info.ausf_api_version, failing)
    IN  /\ ausf' = out.ausf
        /\ last' = Run("set_ausf_information_for_all_relations", 0, info,
                       out.calls, out.raised, "None")
        /\ UNCHANGED <<can_connect, plan, service_active, files, is_leader, nrf,
                       udm, status, pending, deferred, requirer, triggers>>

NextLibrary ==
    \/ \E info \in InformationChoices, r \in CallIds : CallSetAusfInformation(info, r)
    \/ \E info \in InformationChoices, r \in CallIds : CallAusfDataIsSet(info, r)
    \/ \E info \in InformationChoices, failing \in SUBSET RelIds :
            CallSetAusfInformationForAllRelations(info, failing)

SpecLibrary == InitLibrary /\ [][NextLibrary]_vars

----------------------------------------------------------------------------
(* The fiveg_ausf library, requirer side: FiveGAUSFRequires in a charm     *)
(* that consumes the AUSF fact.                                            *)

\* self.on.ausf_available.emit(...): the four values the event carries.
AUSFAvailableEvent(remote_app_relation_data) ==
    [ausf_ipv4_address |-> remote_app_relation_data["ausf_ipv4_address"],
     ausf_fqdn |-> remote_app_relation_data["ausf_fqdn"],
     ausf_port |-> remote_app_relation_data["ausf_port"],
     ausf_api_version |-> remote_app_relation_data["ausf_api_version"]]

\* What the handler does: nothing, or the emission of ausf_available.
Emitting(args) == [calls |-> <<"emit">>, args |-> args]

NotEmitting == [calls |-> <<>>, args |-> NoArgs]

\* The handler deciding by the availability of each value instead of the
\* presence of each key.
RelationChangedOutcomeByTruthiness ==
    LET relation == requirer IN
    IF ~relation.app THEN NotEmitting
    ELSE LET remote_app_relation_data == relation.data IN
         IF ~Truthy(Get(remote_app_relation_data, "ausf_ipv4_address")) THEN NotEmitting
         ELSE IF ~Truthy(Get(remote_app_relation_data, "ausf_fqdn")) THEN NotEmitting
         ELSE IF ~Truthy(Get(remote_app_relation_data, "ausf_port")) THEN NotEmitting
         ELSE IF ~Truthy(Get(remote_app_relation_data, "ausf_api_version")) THEN NotEmitting
         ELSE Emitting(AUSFAvailableEvent(remote_app_relation_data))

\* The checks of _on_relation_changed on event.relation, in their order.
RelationChangedOutcome ==
    LET relation == requirer IN
    IF ~relation.app THEN NotEmitting
    ELSE LET remote_app_relation_data == relation.data IN
         IF "ausf_ipv4_address" \notin DOMAIN remote_app_relation_data THEN NotEmitting
         ELSE IF "ausf_fqdn" \notin DOMAIN remote_app_relation_data THEN NotEmitting
         ELSE IF "ausf_port" \notin DOMAIN remote_app_relation_data THEN NotEmitting
         ELSE IF "ausf_api_version" \notin DOMAIN remote_app_relation_data THEN NotEmitting
         ELSE Emitting(AUSFAvailableEvent(remote_app_relation_data))

\* relation_changed of the requirer's relation: the event carries the
\* relation, which therefore exists.
_on_relation_changed ==
    /\ requirer.created
    /\ last' = Run("_on_relation_changed", 0, RelationChangedOutcome.args,
                   RelationChangedOutcome.calls, FALSE, "None")
    /\ UNCHANGED <<can_connect, plan, service_active, files, is_leader, nrf, udm,
                   ausf, status, pending, deferred, requirer, triggers>>

\* The getter without its guard: .get called on the None that
\* relation.data.get(relation.app) returns when no application is attached.
RemoteAppRelationDataGetUnguarded(key) ==
    IF ~requirer.created THEN [raised |-> TRUE, returned |-> None]
    ELSE IF ~requirer.app THEN [raised |-> TRUE, returned |-> None]
    ELSE [raised |-> FALSE, returned |-> Get(requirer.data, key)]

\* The body the four getters share: get_relation (None when the relation
\* does not exist, and relation.data then raises AttributeError),
\* relation.data.get(relation.app) (None when no application is attached),
\* None for no data or empty data, else the value of the key or None.
RemoteAppRelationDataGet(key) ==
    IF ~requirer.created THEN [raised |-> TRUE, returned |-> None]
    ELSE IF ~requirer.app THEN [raised |-> FALSE, returned |-> None]
    ELSE IF requirer.data = EmptyData THEN [raised |-> FALSE, returned |-> None]
    ELSE [raised |-> FALSE, returned |-> Get(requirer.data, key)]

ausf_ipv4_address == RemoteAppRelationDataGet("ausf_ipv4_address")

ausf_fqdn == RemoteAppRelationDataGet("ausf_fqdn")

ausf_port == RemoteAppRelationDataGet("ausf_port")

ausf_api_version == RemoteAppRelationDataGet("ausf_api_version")

\* if self.<getter>: return True else: return False
Available(got) ==
    [raised |-> got.raised,
     returned |-> IF got.raised THEN "None" ELSE Bool(Truthy(got.returned))]

ausf_ipv4_address_available == Available(ausf_ipv4_address)

ausf_fqdn_available == Available(ausf_fqdn)

ausf_port_available == Available(ausf_port)

ausf_api_version_available == Available(ausf_api_version)

\* The properties of FiveGAUSFRequires by name.
RequirerProperties ==
    [ausf_ipv4_address |-> ausf_ipv4_address,
     ausf_fqdn |-> ausf_fqdn,
     ausf_port |-> ausf_port,
     ausf_api_version |-> ausf_api_version,
     ausf_ipv4_address_available |-> ausf_ipv4_address_available,
     ausf_fqdn_available |-> ausf_fqdn_available,
     ausf_port_available |-> ausf_port_available,
     ausf_api_version_available |-> ausf_api_version_available]

ProbeOf(key) == key \o "_available"

\* The requiring charm reads one of the properties.
ReadProperty(name) ==
    /\ last' = Run(name, 0, NoArgs, <<>>, RequirerProperties[name].raised,
                   RequirerProperties[name].returned)
    /\ UNCHANGED <<can_connect, plan, service_active, files, is_leader, nrf, udm,
                   ausf, status, pending, deferred, requirer, triggers>>

\* What the remote application may have stored under a key.
RemoteValues(k) == {CharmInformation[k], ""}

\* What the remote application data may hold: any of the four keys, each
\* with any of its values.
RemoteDataChoices ==
    UNION {{d \in [S -> UNION {RemoteValues(k) : k \in S}] :
                \A k \in S : d[k] \in RemoteValues(k)} :
           S \in SUBSET AusfKeys}

\* The relation is created with or without a remote application, or the
\* remote application rewrites its data.
RequirerRelationChanges(app, d) ==
    /\ app \/ d = EmptyData
    /\ requirer # RequirerRelation(app, d)
    /\ requirer' = RequirerRelation(app, d)
    /\ UNCHANGED <<can_connect, plan, service_active, files, is_leader, nrf, udm,
                   ausf, status, pending, deferred, last, triggers>>

RequirerRelationRemoved ==
    /\ requirer.created
    /\ requirer' = NoRequirerRelation
    /\ UNCHANGED <<can_connect, plan, service_active, files, is_leader, nrf, udm,
                   ausf, status, pending, deferred, last, triggers>>

NextRequirer ==
    \/ _on_relation_changed
    \/ \E name \in DOMAIN RequirerProperties : ReadProperty(name)
    \/ \E app \in BOOLEAN, d \in RemoteDataChoices : RequirerRelationChanges(app, d)
    \/ RequirerRelationRemoved

SpecRequirer == Init /\ [][NextRequirer]_vars

----------------------------------------------------------------------------
(* The orders of processing: the environment held fixed, a set of events   *)
(* emitted, each of them delivered, deferred, redelivered and emitted      *)
(* again in any order, one run at a time.                                  *)

\* The Pebble plan before the charm declared its layer, or after.
PlanChoices == {EmptyPlan, AddLayer(EmptyPlan, _pebble_layer)}

InitOrder ==
    /\ can_connect \in BOOLEAN
    /\ plan \in PlanChoices
    /\ service_active \in {b \in BOOLEAN : b => plan # EmptyPlan}
    /\ files = EmptyData
    /\ is_leader \in BOOLEAN
    /\ nrf \in {Relation(EmptyData), Relation(NrfFact)}
    /\ udm \in {NoRelation, Relation(UdmFact)}
    /\ ausf \in [RelIds -> {NoRelation, Relation(EmptyData)}]
    /\ status = MaintenanceStatus("")
    /\ triggers \in SUBSET Events
    /\ pending = triggers
    /\ deferred = {}
    /\ last = NoRun
    /\ requirer = NoRequirerRelation

\* The substrate emits once more an event of the set.
Duplicate(e) ==
    /\ e \in triggers
    /\ e \notin pending
    /\ pending' = pending \cup {e}
    /\ UNCHANGED <<can_connect, plan, service_active, files, is_leader, nrf, udm,
                   ausf, status, deferred, last, requirer, triggers>>

NextOrder ==
    \/ \E e \in Events : Deliver(e)
    \/ \E e \in Events : Redeliver(e)
    \/ \E e \in Events : Duplicate(e)

SpecOrder == InitOrder /\ [][NextOrder]_vars

----------------------------------------------------------------------------
(* Properties of the reconciliation handler, under SpecReconcile *)

\* A run of the reconciliation handler on event e, delivered or redelivered.
ReconcileRun(e) == Deliver(e) \/ Redeliver(e)

\* A fact is complete when all four of its fields are present.
Complete(data, keys) == \A k \in keys : k \in DOMAIN data

\* The status of the first failing check, the data checks being that the
\* fact is complete; Active when none fails.
StatusOfFirstFailingCheck ==
    IF ~can_connect
        THEN WaitingStatus("Waiting for Pebble in workload container")
    ELSE IF ~nrf.created
        THEN BlockedStatus("Waiting for relation to NRF to be created")
    ELSE IF ~udm.created
        THEN BlockedStatus("Waiting for relation to UDM to be created")
    ELSE IF ~Complete(nrf.data, NrfKeys)
        THEN WaitingStatus("Waiting for NRF IPv4 address to be available in relation data")
    ELSE IF ~Complete(udm.data, UdmKeys)
        THEN WaitingStatus("Waiting for UDM IPv4 address to be available in relation data")
    ELSE ActiveStatus

\* C1: whatever the five readiness facts (container reachable, NRF relation
\* exists, UDM relation exists, NRF fact complete, UDM fact complete), a run
\* of the reconciliation handler leaves the unit status equal to the status
\* of the first failing check, and Active when none fails.
C1_StatusIsFirstFailingCheck ==
    [][\A e \in ReconcileEvents :
        ReconcileRun(e) => status' = StatusOfFirstFailingCheck]_vars

\* The container is reachable, both relations exist, both facts are complete.
Ready ==
    /\ can_connect
    /\ nrf.created
    /\ udm.created
    /\ Complete(nrf.data, NrfKeys)
    /\ Complete(udm.data, UdmKeys)

\* C2: a run of the reconciliation handler pushes the configuration file
\* and restarts the service if and only if the container is reachable, both
\* relations exist and both facts are complete (all four fields present);
\* so a pushed configuration holds no absent NRF or UDM value.
C2_AppliesIffComplete ==
    [][\A e \in ReconcileEvents :
        ReconcileRun(e) =>
            /\ ({"push", "restart"} \subseteq Called(last')) <=> Ready
            /\ "push" \in Called(last') =>
                    \A k \in NrfKeys \cup UdmKeys : files'[ConfigPath][k] # Str(None)]_vars

\* One of the five checks of the handler fails: the container is
\* unreachable, a relation is missing, or an address is not in the data.
CheckFails ==
    \/ ~can_connect
    \/ ~nrf.created
    \/ ~udm.created
    \/ Get(nrf.data, "nrf_ipv4_address") \in {None, ""}
    \/ Get(udm.data, "udm_ipv4_address") \in {None, ""}

C4_DefersIffUnreachable ==
    [][\A e \in ReconcileEvents :
        /\ ReconcileRun(e) => (Deferring(last') <=> ~can_connect)
        /\ Deliver(e) =>
            /\ pending' = pending \ {e}
            /\ deferred' = IF can_connect THEN deferred ELSE deferred \cup {e}
        /\ Redeliver(e) =>
            /\ pending' = pending
            /\ deferred' = IF can_connect THEN deferred \ {e} ELSE deferred]_vars

\* A run refused for a missing relation, after which no event is left to
\* deliver or redeliver.
C4_Witness ==
    /\ last.handler = "_on_config_changed"
    /\ last.calls = <<"status">>
    /\ status.name = "blocked"
    /\ can_connect
    /\ pending = {}
    /\ deferred = {}

\* C13: a run of the reconciliation handler with the container reachable
\* and both relations holding complete facts pushes one file, to
\* /openair-ausf/etc/ausf.conf, whose NRF section holds the address, port,
\* API version and FQDN stored in the NRF relation and whose UDM section
\* holds those stored in the UDM relation, sets the status to Active and
\* restarts the ausf service exactly once.
C13_FullReconciliation ==
    [][\A e \in ReconcileEvents :
        (ReconcileRun(e) /\ Ready) =>
            /\ Count(last', "push") = 1
            /\ DOMAIN files' = {"/openair-ausf/etc/ausf.conf"}
            /\ \A k \in NrfKeys :
                    files'["/openair-ausf/etc/ausf.conf"][k] = nrf.data[k]
            /\ \A k \in UdmKeys :
                    files'["/openair-ausf/etc/ausf.conf"][k] = udm.data[k]
            /\ status' = [name |-> "active", message |-> ""]
            /\ Count(last', "restart") = 1
            /\ service_active']_vars

\* A passing run on the two complete facts, whose values are in the file.
C13_Witness ==
    /\ last.handler = "_on_config_changed"
    /\ Count(last, "restart") = 1
    /\ Ready
    /\ status.name = "active"
    /\ "/openair-ausf/etc/ausf.conf" \in DOMAIN files
    /\ files["/openair-ausf/etc/ausf.conf"].nrf_port = "81"
    /\ files["/openair-ausf/etc/ausf.conf"].udm_port = "82"
    /\ files["/openair-ausf/etc/ausf.conf"].udm_fqdn = "udm.example.com"

\* The plan the charm declares: the one service, named ausf.
ExpectedServices ==
    {[name |-> "ausf",
      override |-> "replace",
      summary |-> "ausf",
      command |-> "/openair-ausf/bin/oai_ausf -c /openair-ausf/etc/ausf.conf -o",
      startup |-> "enabled"]}

\* C14: after a run of the reconciliation handler that passes all its
\* checks, the Pebble plan consists of the one service ausf (override
\* replace, startup enabled, command oai_ausf on the pushed file), the
\* service is running and the unit status is Active.
C14_PlanAfterPassingRun ==
    [][\A e \in ReconcileEvents :
        (ReconcileRun(e) /\ ~CheckFails) =>
            /\ plan'.services = ExpectedServices
            /\ ConfigPath \in DOMAIN files'
            /\ service_active'
            /\ status' = [name |-> "active", message |-> ""]]_vars

\* A passing run that declared the plan and started the service, after
\* which no event is left to deliver.
C14_Witness ==
    /\ last.handler = "_on_config_changed"
    /\ last.calls = ApplyCalls
    /\ plan.services = ExpectedServices
    /\ service_active
    /\ status.name = "active"
    /\ deferred = {}
    /\ pending = {}

\* The configuration rendered from the current facts is in the container
\* and the unit is Active.
Applied ==
    /\ ConfigPath \in DOMAIN files
    /\ \A k \in NrfKeys : files[ConfigPath][k] = Get(nrf.data, k)
    /\ \A k \in UdmKeys : files[ConfigPath][k] = Get(udm.data, k)
    /\ plan.services # {}
    /\ status.name = "active"

\* A reconciliation event is deferred.
ReconcileDeferred == deferred \cap ReconcileEvents # {}

\* C16: when a reconciliation event is deferred and from then on the
\* container is reachable and both relations exist with complete facts,
\* then, deferred events being redelivered in the end, the configuration is
\* eventually applied and the status eventually Active, no new event being
\* required.
C16_DeferredReconciliationApplies ==
    []((ReconcileDeferred /\ []Ready) => <>Applied)

\* A reconciliation event deferred by a run that found the container
\* unreachable, the container reachable since and the facts complete, the
\* configuration not applied and no other event pending.
C16_Witness ==
    /\ ReconcileDeferred
    /\ pending = {}
    /\ Ready
    /\ last.handler = "_on_config_changed"
    /\ last.calls = <<"status", "defer">>
    /\ status = WaitingStatus("Waiting for Pebble in workload container")
    /\ files = EmptyData

\* What a run of the evaluation in the current state leaves as status, as
\* files and as plan: the status of the first unmet check and nothing else
\* touched, or the file rendered from the current facts, the layer merged
\* into the plan, and Active.
Unmet ==
    IF ~can_connect THEN 1
    ELSE IF ~nrf.created THEN 2
    ELSE IF ~udm.created THEN 3
    ELSE IF ~Truthy(Get(nrf.data, "nrf_ipv4_address")) THEN 4
    ELSE IF ~Truthy(Get(udm.data, "udm_ipv4_address")) THEN 5
    ELSE 0

StatusAfterRun ==
    CASE Unmet = 1 -> WaitingStatus("Waiting for Pebble in workload container")
      [] Unmet = 2 -> BlockedStatus("Waiting for relation to NRF to be created")
      [] Unmet = 3 -> BlockedStatus("Waiting for relation to UDM to be created")
      [] Unmet = 4 -> WaitingStatus("Waiting for NRF IPv4 address to be available in relation data")
      [] Unmet = 5 -> WaitingStatus("Waiting for UDM IPv4 address to be available in relation data")
      [] OTHER -> ActiveStatus

FilesAfterRun ==
    IF Unmet # 0 THEN files
    ELSE [p \in DOMAIN files \cup {"/openair-ausf/etc/ausf.conf"} |->
            IF p = "/openair-ausf/etc/ausf.conf"
            THEN [k \in DOMAIN RenderConfig |->
                    IF k \in NrfKeys THEN Str(Get(nrf.data, k))
                    ELSE IF k \in UdmKeys THEN Str(Get(udm.data, k))
                    ELSE RenderConfig[k]]
            ELSE files[p]]

PlanAfterRun ==
    IF Unmet # 0 THEN plan
    ELSE [services |-> {s \in plan.services : s.name # "ausf"} \cup ExpectedServices]

\* C18: config_changed, fiveg-nrf relation_changed and fiveg-udm
\* relation_changed run the same evaluation, and the evaluation is
\* idempotent: whichever event causes a run, the status, the file and the
\* plan it leaves are those the evaluation gives for the state it ran in,
\* and a second run, whatever its event, on the state the first one left
\* would leave the same status, the same file and the same plan.
C18_SameIdempotentEvaluation ==
    [][\A e \in ReconcileEvents :
        ReconcileRun(e) =>
            /\ status' = StatusAfterRun
            /\ files' = FilesAfterRun
            /\ plan' = PlanAfterRun
            /\ StatusAfterRun' = status'
            /\ FilesAfterRun' = files'
            /\ PlanAfterRun' = plan']_vars

\* A passing run was made and the event of another trigger is pending on
\* the state it left: the second run is due.
C18_Witness ==
    /\ last.handler = "_on_config_changed"
    /\ last.calls = ApplyCalls
    /\ status = StatusAfterRun
    /\ files = FilesAfterRun
    /\ plan = PlanAfterRun
    /\ status.name = "active"
    /\ pending = {<<"fiveg_udm_relation_changed", 0>>}
    /\ deferred = {<<"config_changed", 0>>}

\* No reconciliation event is pending or deferred.
NoReconcileEventLeft == (pending \cup deferred) \cap ReconcileEvents = {}

\* C20: in every reachable state where no reconciliation event is pending
\* or deferred, a unit status of Active implies that the container is
\* reachable and that the fiveg-nrf and fiveg-udm relations exist with the
\* data rendered into the pushed configuration: the status does not stay
\* Active after a relation or its data has been removed.
C20_ActiveReflectsCurrentState ==
    (NoReconcileEventLeft /\ status.name = "active") =>
        /\ can_connect
        /\ nrf.created
        /\ udm.created
        /\ "/openair-ausf/etc/ausf.conf" \in DOMAIN files
        /\ \A k \in NrfKeys :
                files["/openair-ausf/etc/ausf.conf"][k] = Str(Get(nrf.data, k))
        /\ \A k \in UdmKeys :
                files["/openair-ausf/etc/ausf.conf"][k] = Str(Get(udm.data, k))

\* The unit is Active with the container reachable, the fiveg-nrf relation
\* removed and no event left that would run the evaluation again.
C20_ActiveWithoutNrfRelation ==
    /\ status.name = "active"
    /\ pending = {}
    /\ deferred = {}
    /\ can_connect
    /\ ~nrf.created
    /\ udm.created

\* What the handler does guarantee: Active with no event left reflects the
\* data of a relation as long as the relation exists and the container is
\* reachable, a change of the data being followed by relation_changed.
C20_ActiveReflectsDataOfExistingRelations ==
    (NoReconcileEventLeft /\ status.name = "active"
        /\ can_connect /\ nrf.created /\ udm.created) =>
        /\ \A k \in NrfKeys :
                files["/openair-ausf/etc/ausf.conf"][k] = Str(Get(nrf.data, k))
        /\ \A k \in UdmKeys :
                files["/openair-ausf/etc/ausf.conf"][k] = Str(Get(udm.data, k))

\* A run of the reconciliation handler on event e in which the Pebble call
\* step raises.
RaisingRun(e, step) == DeliverRaising(e, step) \/ RedeliverRaising(e, step)

\* The calls of the run are the first n of: push, add_layer, replan,
\* restart, status.
FirstCallsOfApply(run, n) ==
    /\ Len(run.calls) = n
    /\ \A i \in 1..n :
            run.calls[i] = <<"push", "add_layer", "replan", "restart", "status">>[i]

\* The file in the container is the one rendered from the current facts.
NewFileInPlace ==
    /\ "/openair-ausf/etc/ausf.conf" \in DOMAIN files
    /\ \A k \in NrfKeys :
            files["/openair-ausf/etc/ausf.conf"][k] = Str(Get(nrf.data, k))
    /\ \A k \in UdmKeys :
            files["/openair-ausf/etc/ausf.conf"][k] = Str(Get(udm.data, k))

\* C21: a passing run of the reconciliation handler makes its calls in the
\* order push, add_layer, replan, restart, status Active; in no run is the
\* service restarted before the new file is in place; and a run in which a
\* step fails does not set the status to Active.
C21_ApplyOrder ==
    [][\A e \in ReconcileEvents :
        /\ (ReconcileRun(e) /\ ~CheckFails) =>
                /\ FirstCallsOfApply(last', 5)
                /\ ~last'.raised
                /\ status' = [name |-> "active", message |-> ""]
                /\ NewFileInPlace'
        /\ \A step \in PebbleSteps :
            RaisingRun(e, step) =>
                /\ \E n \in 1..4 :
                        /\ FirstCallsOfApply(last', n)
                        /\ last'.calls[n] = step
                /\ last'.raised
                /\ "status" \notin Called(last')
                /\ status' = status
                /\ "restart" \in Called(last') => NewFileInPlace'
                /\ e \in pending' \cup deferred']_vars

\* The restart raised in a run on facts that an earlier run had not seen:
\* the new file is in place, the status is still that of the earlier run
\* and the event is kept.
C21_Witness ==
    /\ last.handler = "_on_config_changed"
    /\ last.raised
    /\ last.calls = <<"push", "add_layer", "replan", "restart">>
    /\ NewFileInPlace
    /\ status.name = "waiting"
    /\ pending # {}

----------------------------------------------------------------------------
(* Properties of the advertisement handler, under SpecAdvertise *)

\* A run of the advertisement handler on the join event of relation r.
JoinRun(r) == Deliver(JoinedEvent(r)) \/ Redeliver(JoinedEvent(r))

\* The container is reachable and the ausf service exists and is running.
ServiceRunning ==
    /\ can_connect
    /\ \E s \in plan.services : s.name = "ausf"
    /\ service_active

\* The data holds the AUSF fact of this charm.
HoldsAusfFact(data) ==
    /\ Get(data, "ausf_ipv4_address") = "127.0.0.1"
    /\ Get(data, "ausf_fqdn") = "oai-5g-ausf.whatever.svc.cluster.local"
    /\ Get(data, "ausf_port") = "80"
    /\ Get(data, "ausf_api_version") = "v1"

\* The data with the AUSF fact of this charm written over it.
WithAusfFact(data) ==
    Update(data, [ausf_ipv4_address |-> "127.0.0.1",
                  ausf_fqdn |-> "oai-5g-ausf.whatever.svc.cluster.local",
                  ausf_port |-> "80",
                  ausf_api_version |-> "v1"])

\* This step writes an AUSF field of relation r.
AusfWritten(r) ==
    \E k \in AusfKeys :
        /\ k \in DOMAIN ausf'[r].data
        /\ Get(ausf[r].data, k) # ausf'[r].data[k]

\* C5: a join event handled by the leader while the ausf service is not
\* running is deferred and nothing is written to any relation; redelivered
\* once the service is running, it makes one write of the AUSF fact, to the
\* joining relation alone; and a run on a relation that holds the fact,
\* redelivered or duplicate, writes nothing.
C5_DeferredThenPublishedOnce ==
    [][\A r \in RelIds :
        /\ (JoinRun(r) /\ is_leader /\ ~ServiceRunning) =>
                /\ last'.calls = <<"defer">>
                /\ ausf' = ausf
                /\ JoinedEvent(r) \in deferred'
        /\ (Redeliver(JoinedEvent(r)) /\ is_leader /\ ServiceRunning
                /\ ausf[r].created /\ ~HoldsAusfFact(ausf[r].data)) =>
                /\ last'.calls = <<"update">>
                /\ ausf' = [ausf EXCEPT ![r].data = WithAusfFact(@)]
                /\ JoinedEvent(r) \notin deferred'
        /\ (JoinRun(r) /\ ausf[r].created /\ HoldsAusfFact(ausf[r].data)) =>
                /\ "update" \notin Called(last')
                /\ ausf' = ausf]_vars

\* The leader deferred the join event of a relation, which holds no fact
\* yet, and the service has become running since: the redelivery is due.
C5_Witness ==
    \E r \in RelIds :
        /\ last.handler = "_on_fiveg_ausf_relation_joined"
        /\ last.relation_id = r
        /\ last.calls = <<"defer">>
        /\ JoinedEvent(r) \in deferred
        /\ is_leader
        /\ ServiceRunning
        /\ ausf[r].created
        /\ ausf[r].data = EmptyData

\* C6: an AUSF field is written to a fiveg-ausf relation only in a step
\* taken while the container is reachable and the ausf service exists and
\* is running; a join event handled while the container is reachable but
\* the service is missing or not running results in no write.
C6_WrittenOnlyWhileServiceRunning ==
    [][\A r \in RelIds :
        /\ AusfWritten(r) => ServiceRunning
        /\ (JoinRun(r) /\ can_connect /\ ~ServiceRunning) =>
                /\ ausf' = ausf
                /\ "update" \notin Called(last')]_vars

\* A relation holds the AUSF fact, written by the last run.
C6_Witness ==
    \E r \in RelIds :
        /\ last.handler = "_on_fiveg_ausf_relation_joined"
        /\ last.relation_id = r
        /\ last.calls = <<"update">>
        /\ ausf[r].created
        /\ HoldsAusfFact(ausf[r].data)

\* C7: a unit that is not the leader does nothing on a join event: it
\* writes no relation data, does not defer the event and changes no other
\* state; every write of an AUSF field is made while the unit is leader.
C7_OnlyLeaderActs ==
    [][\A r \in RelIds :
        /\ (JoinRun(r) /\ ~is_leader) =>
                /\ UNCHANGED <<ausf, nrf, udm, status, files, plan, service_active,
                               can_connect, is_leader>>
                /\ last'.calls = <<>>
                /\ ~last'.raised
                /\ Deliver(JoinedEvent(r)) => deferred' = deferred
                /\ Redeliver(JoinedEvent(r)) => JoinedEvent(r) \notin deferred'
        /\ AusfWritten(r) => is_leader]_vars

\* A unit that is not the leader ran the handler on the join event of an
\* existing relation while the service was running, and left it empty.
C7_Witness ==
    \E r \in RelIds :
        /\ last.handler = "_on_fiveg_ausf_relation_joined"
        /\ last.relation_id = r
        /\ last.calls = <<>>
        /\ ~last.raised
        /\ ~is_leader
        /\ ServiceRunning
        /\ ausf[r].created
        /\ ausf[r].data = EmptyData
        /\ JoinedEvent(r) \notin pending \cup deferred

\* C8: when the leader handles the join event of an existing relation
\* with the service running, the local application data of that relation
\* afterwards holds ausf_ipv4_address = 127.0.0.1, ausf_fqdn =
\* <app>.<model>.svc.cluster.local, ausf_port = 80, ausf_api_version = v1,
\* and the data of every other fiveg-ausf relation is unchanged.
C8_JoiningRelationHoldsFact ==
    [][\A r \in RelIds :
        (JoinRun(r) /\ is_leader /\ ServiceRunning /\ ausf[r].created) =>
            /\ HoldsAusfFact(ausf'[r].data)
            /\ DOMAIN ausf'[r].data = AusfKeys
            /\ \A q \in RelIds \ {r} : ausf'[q] = ausf[q]]_vars

\* The leader wrote the fact to one relation while another existing
\* relation stays empty.
C8_Witness ==
    \E r, q \in RelIds :
        /\ r # q
        /\ last.handler = "_on_fiveg_ausf_relation_joined"
        /\ last.relation_id = r
        /\ last.calls = <<"update">>
        /\ last.args = CharmInformation
        /\ HoldsAusfFact(ausf[r].data)
        /\ ausf[q].created
        /\ ausf[q].data = EmptyData

\* From now on the unit is leader, the service is running and relation r,
\* which a consumer joined, exists.
SteadyLeaderOf(r) == [](is_leader /\ ServiceRunning /\ ausf[r].created)

\* C17: for every fiveg-ausf relation a consumer has joined, once the unit
\* is leader and the ausf service is running and stays so, the AUSF fact is
\* eventually in the local application data of that relation, events being
\* delivered and redelivered in the end, whether or not the unit was leader
\* and the service running when the join event was first delivered.
C17_JoinedRelationEventuallyHoldsFact ==
    \A r \in RelIds :
        [](SteadyLeaderOf(r) => <>HoldsAusfFact(ausf[r].data))

\* What the handler does guarantee: the fact is eventually published when
\* the join event is still pending or deferred as the unit becomes leader
\* with the service running, and stays so.
C17_OutstandingJoinIsPublished ==
    \A r \in RelIds :
        []((JoinedEvent(r) \in pending \cup deferred /\ SteadyLeaderOf(r))
                => <>HoldsAusfFact(ausf[r].data))

\* The join event of a relation was handled and dropped by a unit that was
\* not the leader; the unit is now leader, the service is running, the
\* relation holds no fact and no event is left.
C17_DroppedJoin ==
    \E r \in RelIds :
        /\ last.handler = "_on_fiveg_ausf_relation_joined"
        /\ last.relation_id = r
        /\ last.calls = <<>>
        /\ is_leader
        /\ ServiceRunning
        /\ ausf[r].created
        /\ ausf[r].data = EmptyData
        /\ pending = {}
        /\ deferred = {}

\* C23: the two handlers write apart: a run of the reconciliation handler
\* writes no relation data, the AUSF fact least of all; a run of the
\* advertisement handler changes neither the unit status, nor the file, nor
\* the Pebble plan, nor the state of the service; and an AUSF field is
\* written only by the update of FiveGAUSFProvides.set_ausf_information.
C23_HandlersWriteApart ==
    [][/\ \A e \in ReconcileEvents :
            ReconcileRun(e) =>
                /\ ausf' = ausf
                /\ nrf' = nrf
                /\ udm' = udm
                /\ "update" \notin Called(last')
       /\ \A r \in RelIds :
            /\ JoinRun(r) =>
                /\ status' = status
                /\ files' = files
                /\ plan' = plan
                /\ service_active' = service_active
                /\ Called(last') \subseteq {"defer", "update"}
            /\ AusfWritten(r) =>
                /\ JoinRun(r)
                /\ last'.handler = "_on_fiveg_ausf_relation_joined"
                /\ last'.calls = <<"update">>]_vars

\* The advertisement handler published to a relation while the unit status
\* was that of a refused reconciliation, and the reconciliation handler has
\* run since: the status is as that run left it, the fact as published.
C23_Witness ==
    \E r \in RelIds :
        /\ last.handler = "_on_config_changed"
        /\ last.calls = <<"status", "defer">>
        /\ status.name = "waiting"
        /\ ausf[r].created
        /\ HoldsAusfFact(ausf[r].data)
        /\ ConfigPath \in DOMAIN files

\* The advertisement handler published last, the status Active from the
\* reconciliation before it.
C23_WitnessPublished ==
    \E r \in RelIds :
        /\ last.handler = "_on_fiveg_ausf_relation_joined"
        /\ last.calls = <<"update">>
        /\ status.name = "active"
        /\ HoldsAusfFact(ausf[r].data)

----------------------------------------------------------------------------
(* Properties of the two handlers together, under SpecOrder *)

\* Every event is processed: none is pending, none is deferred.
AllProcessed == pending = {} /\ deferred = {}

\* C19: the environment held fixed, whatever the order in which the events
\* of a set are delivered, deferred, redelivered and emitted again, the
\* state reached once all are processed is the same, a function of the
\* environment and the set: the status and the file are those of one
\* evaluation if the set holds a reconciliation event and untouched if not,
\* and a relation holds the AUSF fact exactly if the set holds its join
\* event and the unit is leader.
C19_OrderDoesNotMatter ==
    AllProcessed =>
        LET reconciled == triggers \cap ReconcileEvents # {} IN
        /\ status = IF reconciled THEN StatusAfterRun
                    ELSE [name |-> "maintenance", message |-> ""]
        /\ files = IF reconciled /\ Unmet = 0
                   THEN [p \in {"/openair-ausf/etc/ausf.conf"} |->
                            FilesAfterRun["/openair-ausf/etc/ausf.conf"]]
                   ELSE EmptyData
        /\ \A r \in RelIds :
                ausf[r] = IF ~ausf[r].created THEN NoRelation
                          ELSE IF JoinedEvent(r) \in triggers /\ is_leader
                          THEN Relation(WithAusfFact(EmptyData))
                          ELSE Relation(EmptyData)

\* All processed, the reconciliation run last: the join event of a
\* relation was handled before it, and was deferred if the service was not
\* running then.
C19_Witness ==
    /\ AllProcessed
    /\ {<<"config_changed", 0>>, JoinedEvent(1)} \subseteq triggers
    /\ is_leader
    /\ HoldsAusfFact(ausf[1].data)
    /\ status.name = "active"
    /\ last.handler = "_on_config_changed"

\* All processed, the join event handled last.
C19_WitnessJoinLast ==
    /\ AllProcessed
    /\ {<<"config_changed", 0>>, JoinedEvent(1)} \subseteq triggers
    /\ is_leader
    /\ HoldsAusfFact(ausf[1].data)
    /\ status.name = "active"
    /\ last.handler = "_on_fiveg_ausf_relation_joined"
    /\ last.calls = <<"update">>

----------------------------------------------------------------------------
(* Properties of the library, under SpecLibrary *)

\* The four stored fields equal those of info.
Stored(data, info) == \A k \in AusfKeys : Get(data, k) = info[k]

\* The last run was set_ausf_information(info, r) and it returned.
JustSet(info, r) ==
    /\ last.handler = "set_ausf_information"
    /\ last.relation_id = r
    /\ last.args = info
    /\ ~last.raised

\* C9: set_ausf_information called twice with the same four values on the
\* same existing relation writes the relation data once: the first call
\* writes unless the four fields are already stored, the second finds them
\* equal and returns without writing.
C9_PublishingIsIdempotent ==
    [][\A info \in InformationChoices, r \in RelIds :
        /\ (CallSetAusfInformation(info, r) /\ ausf[r].created) =>
                /\ ~last'.raised
                /\ last'.calls = IF Stored(ausf[r].data, info) THEN <<>> ELSE <<"update">>
                /\ Stored(ausf'[r].data, info)
        /\ (JustSet(info, r) /\ CallSetAusfInformation(info, r)) =>
                /\ last'.calls = <<>>
                /\ ~last'.raised
                /\ ausf' = ausf]_vars

\* A call that made no write on a relation whose data holds the
\* information, beside a key that is not the library's.
C9_Witness ==
    \E info \in InformationChoices, r \in RelIds :
        /\ JustSet(info, r)
        /\ last.calls = <<>>
        /\ ausf[r].created
        /\ Stored(ausf[r].data, info)
        /\ OtherKey \in DOMAIN ausf[r].data

\* C10: set_ausf_information and ausf_data_is_set called with the id of a
\* relation that does not exist raise, and no relation data is written.
C10_MissingRelationRaises ==
    [][\A info \in InformationChoices, r \in CallIds :
        (r \notin RelIds \/ ~ausf[r].created) =>
            /\ CallSetAusfInformation(info, r) =>
                    /\ last'.raised
                    /\ last'.calls = <<>>
                    /\ ausf' = ausf
            /\ CallAusfDataIsSet(info, r) =>
                    /\ last'.raised
                    /\ last'.returned = "None"
                    /\ ausf' = ausf]_vars

\* set_ausf_information raised on the id of a relation that does not
\* exist, while another relation exists.
C10_Witness ==
    /\ last.handler = "set_ausf_information"
    /\ last.raised
    /\ last.relation_id \in RelIds
    /\ ~ausf[last.relation_id].created
    /\ \E q \in RelIds : ausf[q].created

\* C15: set_ausf_information_for_all_relations with no live fiveg-ausf
\* relation writes nothing and does not raise; with live relations, when it
\* returns every one of them holds the four given fields, those that held
\* them already are not written again, and when the write to a relation
\* raises, the call raises.
C15_PublishToAllRelations ==
    [][\A info \in InformationChoices, failing \in SUBSET RelIds :
        CallSetAusfInformationForAllRelations(info, failing) =>
            LET live == {r \in RelIds : ausf[r].created}
                lacking == {r \in live : ~Stored(ausf[r].data, info)}
            IN  /\ live = {} =>
                    /\ ~last'.raised
                    /\ last'.calls = <<>>
                    /\ ausf' = ausf
                /\ ~last'.raised =>
                    /\ \A r \in live : Stored(ausf'[r].data, info)
                    /\ \A r \in live \ lacking : ausf'[r] = ausf[r]
                    /\ \A r \in RelIds \ live : ausf'[r] = ausf[r]
                    /\ Count(last', "update") = Cardinality(lacking)
                /\ last'.raised <=> (lacking \cap failing # {})]_vars

\* The call returned on two live relations, one of which held the fields
\* already: one write.
C15_Witness ==
    \E info \in InformationChoices :
        /\ last.handler = "set_ausf_information_for_all_relations"
        /\ last.args = info
        /\ ~last.raised
        /\ last.calls = <<"update">>
        /\ Cardinality({r \in RelIds : ausf[r].created}) >= 2
        /\ \A r \in RelIds : ausf[r].created => Stored(ausf[r].data, info)

\* The call raised on the second of two live relations, the first written.
C15_WitnessRaised ==
    \E info \in InformationChoices :
        /\ last.handler = "set_ausf_information_for_all_relations"
        /\ last.args = info
        /\ last.raised
        /\ ausf[1].created /\ Stored(ausf[1].data, info)
        /\ ausf[2].created /\ ~Stored(ausf[2].data, info)

\* The call on no live relation.
C15_WitnessNone ==
    /\ last.handler = "set_ausf_information_for_all_relations"
    /\ ~last.raised
    /\ \A r \in RelIds : ~ausf[r].created

\* C22: after set_ausf_information returns on an existing relation, the
\* local application data of the relation holds the four given values
\* whatever it held before; ausf_data_is_set returns true if and only if
\* the four stored fields equal the given values; a single differing or
\* absent field has all four written in one update; and the keys that are
\* not the four AUSF keys are left as they were.
C22_SetWritesAllFourOrNothing ==
    [][\A info \in InformationChoices, r \in RelIds :
        /\ (CallSetAusfInformation(info, r) /\ ausf[r].created) =>
                LET differing == {k \in AusfKeys :
                                    k \notin DOMAIN ausf[r].data
                                    \/ ausf[r].data[k] # info[k]}
                IN  /\ ~last'.raised
                    /\ \A k \in AusfKeys :
                            k \in DOMAIN ausf'[r].data /\ ausf'[r].data[k] = info[k]
                    /\ last'.calls = IF differing = {} THEN <<>> ELSE <<"update">>
                    /\ DOMAIN ausf'[r].data = DOMAIN ausf[r].data \cup AusfKeys
                    /\ \A k \in DOMAIN ausf[r].data \ AusfKeys :
                            ausf'[r].data[k] = ausf[r].data[k]
                    /\ \A q \in RelIds \ {r} : ausf'[q] = ausf[q]
        /\ (CallAusfDataIsSet(info, r) /\ ausf[r].created) =>
                /\ ~last'.raised
                /\ (last'.returned = "True") <=>
                        \A k \in AusfKeys :
                            k \in DOMAIN ausf[r].data /\ ausf[r].data[k] = info[k]
                /\ last'.returned \in {"True", "False"}
                /\ ausf' = ausf]_vars

\* A call wrote the four fields over data that held a key of another
\* owner, which is still there.
C22_Witness ==
    \E info \in InformationChoices, r \in RelIds :
        /\ JustSet(info, r)
        /\ last.calls = <<"update">>
        /\ ausf[r].created
        /\ Stored(ausf[r].data, info)
        /\ DOMAIN ausf[r].data = AusfKeys \cup {OtherKey}

----------------------------------------------------------------------------
(* Properties of the requirer side of the library, under SpecRequirer *)

\* C11: on relation_changed the requirer emits ausf_available if and only
\* if a remote application is attached and the four keys are all present in
\* its data, and the event carries the four stored values; with any key
\* missing nothing is emitted and no value is produced.
C11_EmitsIffAllFourPresent ==
    [][_on_relation_changed =>
        /\ ("emit" \in Called(last')) <=>
                (requirer.app /\ Complete(requirer.data, AusfKeys))
        /\ "emit" \in Called(last') =>
                /\ last'.calls = <<"emit">>
                /\ DOMAIN last'.args = AusfKeys
                /\ \A k \in AusfKeys : last'.args[k] = requirer.data[k]
        /\ "emit" \notin Called(last') =>
                /\ last'.calls = <<>>
                /\ last'.args = NoArgs
        /\ ~last'.raised]_vars

\* The handler ran on data holding three of the four keys and emitted
\* nothing.
C11_Witness ==
    /\ last.handler = "_on_relation_changed"
    /\ last.calls = <<>>
    /\ requirer.created
    /\ requirer.app
    /\ Cardinality(DOMAIN requirer.data) = 3

\* The handler ran on data holding the four keys, one with the empty
\* string, and emitted the four values.
C11_WitnessEmitted ==
    /\ last.handler = "_on_relation_changed"
    /\ last.calls = <<"emit">>
    /\ requirer.created
    /\ requirer.app
    /\ last.args = requirer.data
    /\ \E k \in AusfKeys : requirer.data[k] = ""

\* C12: on a relation with no remote application attached nothing raises:
\* the relation_changed handler returns without emitting, each of the four
\* getters returns None and each of the four probes returns False.
C12_NoRemoteApplicationIsIncomplete ==
    [][(requirer.created /\ ~requirer.app) =>
        /\ _on_relation_changed =>
                /\ last'.calls = <<>>
                /\ ~last'.raised
        /\ \A k \in AusfKeys :
            /\ ReadProperty(k) =>
                    /\ ~last'.raised
                    /\ last'.returned = None
            /\ ReadProperty(ProbeOf(k)) =>
                    /\ ~last'.raised
                    /\ last'.returned = "False"]_vars

\* A probe was read on a relation with no remote application and returned
\* False.
C12_Witness ==
    /\ last.handler = "ausf_port_available"
    /\ last.returned = "False"
    /\ ~last.raised
    /\ requirer.created
    /\ ~requirer.app

\* C24: each of the four availability probes returns true exactly when
\* its key is present in the remote application's data, whatever the value
\* stored, the empty string included; so the four probes are all true if
\* and only if relation_changed on the same data emits ausf_available.
C24_ProbeIsKeyPresence ==
    [][requirer.created =>
        /\ \A k \in AusfKeys :
            ReadProperty(ProbeOf(k)) =>
                /\ ~last'.raised
                /\ (last'.returned = "True") <=>
                        (requirer.app /\ k \in DOMAIN requirer.data)
        /\ _on_relation_changed =>
                (("emit" \in Called(last')) <=>
                    \A k \in AusfKeys :
                        RequirerProperties[ProbeOf(k)].returned = "True")]_vars

\* A probe returned False on data that holds its key, with the empty
\* string, and the three other keys: data on which relation_changed emits.
C24_ProbeFalseOnPresentKey ==
    /\ last.handler = "ausf_fqdn_available"
    /\ last.returned = "False"
    /\ requirer.created
    /\ requirer.app
    /\ DOMAIN requirer.data = AusfKeys
    /\ requirer.data["ausf_fqdn"] = ""

\* What the probes do guarantee: each returns true exactly when its key is
\* present with a value that is not the empty string.
C24_ProbeIsNonEmptyValue ==
    [][requirer.created =>
        \A k \in AusfKeys :
            ReadProperty(ProbeOf(k)) =>
                /\ ~last'.raised
                /\ (last'.returned = "True") <=>
                        /\ requirer.app
                        /\ k \in DOMAIN requirer.data
                        /\ requirer.data[k] # ""]_vars

====
